---- MODULE Spec2Model ----
(***************************************************************************)
(* Model of wrapper.py: the Monitor progress-reporting iterator, the       *)
(* predict_img inference pipeline and the main driver.                     *)
(*                                                                         *)
(* Three specifications share the variables:                               *)
(*   SpecMonitor : one iteration of a Monitor over arbitrary parameters    *)
(*   SpecPredict : one call of predict_img                                 *)
(*   SpecMain    : one run of main (which iterates a Monitor)              *)
(*                                                                         *)
(* Floating point.  Monitor computes int(period * n) and                   *)
(* int(start + (end - start) * (i / float(total))) on IEEE doubles.  The   *)
(* model computes both in exact rational arithmetic.  For the period       *)
(* fractions and (start, end) ranges enumerated below the two agree for    *)
(* every length up to 40; elsewhere a double can round below an integer    *)
(* (49 * (1 / 49.0) < 1) and the code then truncates one lower.            *)
(***************************************************************************)
EXTENDS Integers, Sequences, FiniteSets

VARIABLES
    \* ---- Monitor object (wrapper.py:56-90) ----
    iterable,       \* self._iterable: the source, as the sequence of its elements
    one_pass,       \* TRUE when the source is a single-consumption iterator
    remaining,      \* what an enumeration of the source still produces
    start,          \* self._start
    end,            \* self._end
    update_period,  \* self._update_period: [kind, num, den]
    mpc,            \* position of the generator __iter__
    i,              \* loop index of enumerate
    total,          \* local 'total' of __iter__
    yielded,        \* the elements handed to the consumer so far
    periods,        \* the value of 'period' computed at each loop pass
    updates,        \* the calls of job.update, in order
    \* ---- predict_img (wrapper.py:22-46) ----
    full_img,       \* shape of the input array
    scale_factor,   \* <<num, den>>
    out_threshold,  \* twice the threshold, in 8-bit grey levels
    ppc,            \* position inside predict_img
    height,
    width,
    img,            \* shape of the array 'img'
    proba,          \* [shape, data]: data is row-major, in 8-bit grey levels
    mask,           \* [shape, data]: the returned boolean array
    \* ---- main (wrapper.py:93-131) ----
    pc,             \* position inside main
    net_loads,      \* number of load_model calls that returned
    reads,          \* images read by imread, in order
    written,        \* images whose mask imwrite has written, in order
    uploads,        \* the upload phases that ran, in order
    failure         \* [stage, image] of the exception raised, stage "none" if none

monitor_vars == <<iterable, one_pass, remaining, start, end, update_period, mpc, i,
                  total, yielded, periods, updates>>
predict_vars == <<full_img, scale_factor, out_threshold, ppc, height, width, img,
                  proba, mask>>
main_vars == <<pc, net_loads, reads, written, uploads, failure>>
vars == <<monitor_vars, predict_vars, main_vars>>

(***************************************************************************)
(* Bounds                                                                  *)
(***************************************************************************)
SmallLen == 2     \* sources up to this length are enumerated exhaustively
MaxLen == 20      \* longest source of SpecMonitor
MaxPeriod == 3    \* largest integer period
MaxDim == 2       \* largest image height and width
MaxLevel == 1     \* largest grey level of a probability map
MaxImages == 14   \* largest number of input images of main

Elems == {0, 1}

\* A source of length n whose elements differ from their indices.
LongSource(n) == [k \in 1..n |-> (n - k) % 3]

Sources ==
    UNION {[1..n -> Elems] : n \in 0..SmallLen}
      \cup {LongSource(n) : n \in (SmallLen + 1)..MaxLen}

\* (start, end) pairs, start < end.
Ranges == {<<20, 75>>, <<0, 100>>, <<0, 3>>, <<-1, 0>>, <<-3, -1>>, <<-2, 2>>}

\* Fractional periods num/den in (0, 1]: 0.05, 0.25, 0.5, 1.0.
Fractions == {<<1, 20>>, <<1, 4>>, <<1, 2>>, <<1, 1>>}

NoPeriod == [kind |-> "none", num |-> 0, den |-> 1]
IntPeriod(p) == [kind |-> "int", num |-> p, den |-> 1]
FloatPeriod(f) == [kind |-> "float", num |-> f[1], den |-> f[2]]

PeriodSpecs ==
    {NoPeriod} \cup {IntPeriod(p) : p \in 1..MaxPeriod}
               \cup {FloatPeriod(f) : f \in Fractions}

(***************************************************************************)
(* Arithmetic helpers                                                      *)
(***************************************************************************)
\* Python's None, as returned by _get_period.
None == -1

Max(a, b) == IF a >= b THEN a ELSE b

\* int(a / b) for b > 0: truncation toward zero.
Trunc(a, b) == IF a >= 0 THEN a \div b ELSE -((-a) \div b)

\* round(a / b) half up, for b > 0.
RoundHalfUp(a, b) == (2 * a + b) \div (2 * b)

(***************************************************************************)
(* Monitor                                                                 *)
(***************************************************************************)
\* Monitor.__len__: len(list(self._iterable)).
len(it) == Len(it)

\* A period computed without the clamp to 1.
get_period_unclamped(p, n_iter) ==
    IF p.kind = "none" THEN None
    ELSE IF p.kind = "float" THEN (p.num * n_iter) \div p.den
    ELSE p.num

\* Monitor._get_period.
get_period(p, n_iter) ==
    IF p.kind = "none" THEN None
    ELSE IF p.kind = "float" THEN Max((p.num * n_iter) \div p.den, 1)
    ELSE p.num

\* A progress value rounded to nearest instead of truncated.
relative_progress_round(s, e, num, den) ==
    RoundHalfUp(s * den + (e - s) * num, den)

\* Monitor._relative_progress applied to the ratio num / float(den).
relative_progress(s, e, num, den) ==
    Trunc(s * den + (e - s) * num, den)

\* A report condition that counts elements from 1.
ShouldReportFromOne(period, k) ==
    period = None \/ (k + 1) % period = 0

\* The condition of line 83 (period is None or a non-zero integer).
ShouldReport(period, k) ==
    period = None \/ k % period = 0

\* The value yielded in place of the element: the index.
EnumerateIndex(rest, k) == k

\* enumerate(): the element paired with index k is the head of what remains.
EnumerateValue(rest, k) == Head(rest)

\* A loop whose body runs once even when the source is empty.
HasNextAtLeastOnce(rest, k) == rest # <<>> \/ (k = 0 /\ total = 0)

\* The for loop continues while the enumeration has an element.
HasNext(rest, k) == rest # <<>>

\* Line 80: total = len(self).  Materialising a single-consumption source
\* exhausts it.
IterBegin ==
    /\ mpc = "new"
    /\ total' = len(iterable)
    /\ remaining' = IF one_pass THEN <<>> ELSE iterable
    /\ i' = 0
    /\ mpc' = "loop"
    /\ UNCHANGED <<iterable, one_pass, start, end, update_period, yielded,
                   periods, updates>>

\* Lines 81-87: one pass of the loop body up to the yield.
\* i % 0 and i / float(0) raise ZeroDivisionError.
IterStep ==
    /\ mpc = "loop"
    /\ HasNext(remaining, i)
    /\ LET period == get_period(update_period, total)
           report == IF period = 0 THEN FALSE ELSE ShouldReport(period, i)
       IN /\ periods' = Append(periods, period)
          /\ IF period = 0 \/ (report /\ total = 0)
             THEN /\ mpc' = "raised"
                  /\ UNCHANGED <<yielded, updates, remaining>>
             ELSE /\ updates' =
                        IF report
                        THEN Append(updates,
                               [progress |-> relative_progress(start, end, i, total),
                                status |-> "",
                                comment |-> "monitor",
                                index |-> i,
                                num |-> i + 1,
                                den |-> len(iterable),
                                at |-> Len(yielded)])
                        ELSE updates
                  /\ yielded' = Append(yielded, EnumerateValue(remaining, i))
                  /\ remaining' = Tail(remaining)
                  /\ mpc' = "yielded"
    /\ UNCHANGED <<iterable, one_pass, start, end, update_period, i, total>>

\* The consumer asks for the next element: the generator resumes after yield.
Resume ==
    /\ mpc = "yielded"
    /\ i' = i + 1
    /\ mpc' = "loop"
    /\ UNCHANGED <<iterable, one_pass, remaining, start, end, update_period,
                   total, yielded, periods, updates>>

\* The enumeration is exhausted: the generator returns.
IterEnd ==
    /\ mpc = "loop"
    /\ ~HasNext(remaining, i)
    /\ mpc' = "done"
    /\ UNCHANGED <<iterable, one_pass, remaining, start, end, update_period, i,
                   total, yielded, periods, updates>>

MonitorFresh ==
    /\ remaining = iterable
    /\ mpc = "new"
    /\ i = 0
    /\ total = 0
    /\ yielded = <<>>
    /\ periods = <<>>

PredictIdle ==
    /\ full_img = <<>>
    /\ scale_factor = <<1, 1>>
    /\ out_threshold = 0
    /\ ppc = "idle"
    /\ height = 0
    /\ width = 0
    /\ img = <<>>
    /\ proba = [shape |-> <<>>, data |-> <<>>]
    /\ mask = [shape |-> <<>>, data |-> <<>>]

MainIdle ==
    /\ pc = "idle"
    /\ net_loads = 0
    /\ reads = <<>>
    /\ written = <<>>
    /\ uploads = <<>>
    /\ failure = [stage |-> "none", image |-> 0]

InitMonitor ==
    /\ iterable \in Sources
    /\ one_pass \in BOOLEAN
    /\ \E r \in Ranges : start = r[1] /\ end = r[2]
    /\ update_period \in PeriodSpecs
    /\ updates = <<>>
    /\ MonitorFresh
    /\ PredictIdle
    /\ MainIdle

MonitorBegin == IterBegin /\ UNCHANGED <<predict_vars, main_vars>>
MonitorStep == IterStep /\ UNCHANGED <<predict_vars, main_vars>>
MonitorResume == Resume /\ UNCHANGED <<predict_vars, main_vars>>
MonitorEnd == IterEnd /\ UNCHANGED <<predict_vars, main_vars>>

NextMonitor ==
    \/ MonitorBegin
    \/ MonitorStep
    \/ MonitorResume
    \/ MonitorEnd

SpecMonitor == InitMonitor /\ [][NextMonitor]_vars

(***************************************************************************)
(* Claims about Monitor, checked under SpecMonitor                         *)
(***************************************************************************)
\* The effective period the claims speak of: 1 when the period is absent,
\* P for an integer period, max(floor(F * N), 1) for a fraction F.
EffectivePeriod ==
    IF update_period.kind = "none" THEN 1
    ELSE IF update_period.kind = "int" THEN update_period.num
    ELSE Max((update_period.num * Len(iterable)) \div update_period.den, 1)

ProgressValues == [j \in DOMAIN updates |-> updates[j].progress]

\* C1: iterating a Monitor over a re-enumerable source yields exactly the
\* elements of the source, unchanged and in order: what has been yielded is
\* always a prefix of the source, and the whole source once the iteration
\* is exhausted, whatever the period.
C1_YieldsSourceInOrder ==
    ~one_pass =>
        /\ Len(yielded) <= Len(iterable)
        /\ yielded = SubSeq(iterable, 1, Len(yielded))
        /\ (mpc = "done" => yielded = iterable)

C1_Witness ==
    /\ ~one_pass
    /\ mpc = "done"
    /\ update_period.kind = "float"
    /\ Len(iterable) >= 5
    /\ yielded = iterable
    /\ Len(updates) < Len(iterable)

\* C2: job.update is called exactly once for each index i already passed
\* with i mod p = 0 and for no other index, in increasing index order, each
\* call made when exactly i elements had been yielded (after element i-1,
\* before element i); the first element always triggers one call.
C2_ReportsExactlyAtMultiples ==
    (~one_pass /\ mpc \in {"loop", "yielded", "done"}) =>
        LET n == Len(yielded)
        IN /\ \A k \in 0..(n - 1) :
                Cardinality({j \in DOMAIN updates : updates[j].index = k})
                    = IF k % EffectivePeriod = 0 THEN 1 ELSE 0
           /\ \A j \in DOMAIN updates :
                /\ updates[j].index \in 0..(n - 1)
                /\ updates[j].at = updates[j].index
           /\ \A j \in 1..(Len(updates) - 1) :
                updates[j].index < updates[j + 1].index
           /\ (n > 0 => (updates # <<>> /\ updates[1].index = 0))

C2_Witness ==
    /\ ~one_pass
    /\ mpc = "done"
    /\ EffectivePeriod = 3
    /\ Len(iterable) = 8
    /\ Len(updates) = 3
    /\ updates[3].index = 6

C5_EmptySourceSilent ==
    Len(iterable) = 0 =>
        /\ yielded = <<>>
        /\ updates = <<>>
        /\ periods = <<>>
        /\ mpc # "raised"

C5_Witness ==
    /\ Len(iterable) = 0
    /\ mpc = "done"
    /\ update_period.kind = "float"

\* C9 as stated: the reported progress values start with start, are
\* non-decreasing, and every one of them p satisfies start <= p < end.
C9_ProgressBelowEnd ==
    ~one_pass =>
        /\ (updates # <<>> => updates[1].progress = start)
        /\ \A j \in 1..(Len(updates) - 1) :
             updates[j].progress <= updates[j + 1].progress
        /\ \A j \in DOMAIN updates :
             start <= updates[j].progress /\ updates[j].progress < end

\* C9 amended: the reported progress values start with start, are
\* non-decreasing, and every one of them p satisfies start <= p <= end, with
\* p < end whenever end > 0 (truncation toward zero rounds a negative value
\* up, so a range with end <= 0 can report end itself).
C9_ProgressWithinRange ==
    ~one_pass =>
        /\ (updates # <<>> => updates[1].progress = start)
        /\ \A j \in 1..(Len(updates) - 1) :
             updates[j].progress <= updates[j + 1].progress
        /\ \A j \in DOMAIN updates :
             /\ start <= updates[j].progress
             /\ updates[j].progress <= end
             /\ (end > 0 => updates[j].progress < end)

C9_Witness ==
    /\ ~one_pass
    /\ mpc = "done"
    /\ end <= 0
    /\ Len(updates) >= 2
    /\ updates[1].progress = start
    /\ updates[Len(updates)].progress = end

(***************************************************************************)
(* predict_img                                                             *)
(*                                                                         *)
(* Arrays are [shape, data]: shape is the tuple of dimensions and data the *)
(* row-major sequence of values.  Pixel values of the input image reach    *)
(* the result only through the network, whose output is arbitrary, so of   *)
(* the input only the shape is kept.  A probability is kept as the 8-bit   *)
(* grey level ToPILImage stores for it (probability * 255, as a byte), and *)
(* out_threshold as twice the threshold on the same scale, so thresholds   *)
(* between two grey levels are covered.                                    *)
(***************************************************************************)
Channels == {1, 3}

\* scale_factor values num/den in (0, 1]: 0.5, 0.75, 1.0.
ScaleFactors == {<<1, 2>>, <<3, 4>>, <<1, 1>>}

ImageShapes ==
    {<<h, w, c>> : h \in 1..MaxDim, w \in 1..MaxDim, c \in Channels}
      \cup {<<h, w>> : h \in 1..MaxDim, w \in 1..MaxDim}

Levels == 0..MaxLevel
Thresholds == 0..(2 * MaxLevel)

\* cvRound(a / b): round to nearest, ties to even (cv2.resize computes dsize
\* as cvRound(size * scale)).
cvRound(a, b) ==
    LET q == a \div b
        r == a % b
    IN IF 2 * r < b THEN q
       ELSE IF 2 * r > b THEN q + 1
       ELSE IF q % 2 = 0 THEN q ELSE q + 1

\* Shape of cv2.resize(full_img, None, fx, fy): a one-channel HxWx1 array
\* comes back as a 2-D array.
cv2_resize_shape(shape, f) ==
    LET h == cvRound(shape[1] * f[1], f[2])
        w == cvRound(shape[2] * f[1], f[2])
    IN IF shape[3] = 1 THEN <<h, w>> ELSE <<h, w, shape[3]>>

\* numpy/torch squeeze(): drop every dimension of size 1.
squeeze(shape) == SelectSeq(shape, LAMBDA d : d # 1)

\* squeeze(0): drop the first dimension when it is 1.
squeeze0(shape) == IF shape[1] = 1 THEN Tail(shape) ELSE shape

\* Weight (times 2 * nout) of input pixel k for output pixel x in a bilinear
\* resize of nin pixels to nout >= nin pixels (pixels are 1-based).
Weight(k, x, nin, nout) ==
    LET d == (2 * k - 1) * nout - (2 * x - 1) * nin
        a == IF d < 0 THEN -d ELSE d
    IN IF 2 * nout > a THEN 2 * nout - a ELSE 0

RECURSIVE Acc(_, _, _, _, _)
Acc(f, x, nin, nout, k) ==
    IF k = 0 THEN <<0, 0>>
    ELSE LET r == Acc(f, x, nin, nout, k - 1)
             w == Weight(k, x, nin, nout)
         IN <<r[1] + w * f[k], r[2] + w>>

\* Output pixel x of the 1-D bilinear resize of f, rounded to a grey level.
Interp(f, x, nin, nout) ==
    LET r == Acc(f, x, nin, nout, nin)
    IN RoundHalfUp(r[1], r[2])

\* transforms.Resize((h, w)) on an 8-bit image of sh x sw pixels: a
\* horizontal bilinear pass, then a vertical one.
Resize(data, sh, sw, h, w) ==
    LET hor == [r \in 1..sh, c \in 1..w |->
                  Interp([k \in 1..sw |-> data[(r - 1) * sw + k]], c, sw, w)]
        ver == [r \in 1..h, c \in 1..w |->
                  Interp([k \in 1..sh |-> hor[k, c]], r, sh, h)]
    IN [n \in 1..(h * w) |-> ver[((n - 1) \div w) + 1, ((n - 1) % w) + 1]]

\* The outputs the network may produce for a (1, C, sh, sw) input: any
\* single-channel map of the same resolution.
NetOutputs(sh, sw) == [1..(sh * sw) -> Levels]

\* A comparison that also accepts equality.
AboveOrEqual(v, thr) == 2 * v >= thr

\* Line 46: mask_np > out_threshold, for one pixel.
Above(v, thr) == 2 * v > thr

\* Lines 23-24: height, width, channel = full_img.shape.
Unpack ==
    /\ ppc = "call"
    /\ IF Len(full_img) = 3
       THEN /\ height' = full_img[1]
            /\ width' = full_img[2]
            /\ ppc' = "resize"
       ELSE /\ ppc' = "raised"
            /\ UNCHANGED <<height, width>>
    /\ UNCHANGED <<full_img, scale_factor, out_threshold, img, proba, mask>>

\* Lines 25-27: cv2.resize (which rejects an empty destination), float32
\* conversion, normalize.
CvResize ==
    /\ ppc = "resize"
    /\ LET shape == cv2_resize_shape(full_img, scale_factor)
       IN IF shape[1] = 0 \/ shape[2] = 0
          THEN /\ ppc' = "raised"
               /\ UNCHANGED img
          ELSE /\ img' = shape
               /\ ppc' = "transpose"
    /\ UNCHANGED <<full_img, scale_factor, out_threshold, height, width, proba,
                   mask>>

\* Lines 28-29: np.transpose(img, axes=[2, 0, 1]) needs three axes;
\* unsqueeze(0) adds the batch axis.
Transpose ==
    /\ ppc = "transpose"
    /\ IF Len(img) = 3
       THEN /\ img' = <<1, img[3], img[1], img[2]>>
            /\ ppc' = "net"
       ELSE /\ ppc' = "raised"
            /\ UNCHANGED img
    /\ UNCHANGED <<full_img, scale_factor, out_threshold, height, width, proba,
                   mask>>

\* Lines 31-33: y = net(x); proba = y.squeeze(0).
NetForward ==
    /\ ppc = "net"
    /\ \E y \in NetOutputs(img[3], img[4]) :
         proba' = [shape |-> squeeze0(<<1, 1, img[3], img[4]>>), data |-> y]
    /\ ppc' = "tf"
    /\ UNCHANGED <<full_img, scale_factor, out_threshold, height, width, img,
                   mask>>

\* Lines 35-43: ToPILImage, Resize((height, width)), ToTensor.
Transform ==
    /\ ppc = "tf"
    /\ proba' = [shape |-> <<1, height, width>>,
                 data |-> Resize(proba.data, proba.shape[2], proba.shape[3],
                                 height, width)]
    /\ ppc' = "threshold"
    /\ UNCHANGED <<full_img, scale_factor, out_threshold, height, width, img,
                   mask>>

\* Lines 44-46: mask_np = proba.squeeze(); return mask_np > out_threshold.
Threshold ==
    /\ ppc = "threshold"
    /\ mask' = [shape |-> squeeze(proba.shape),
                data |-> [k \in DOMAIN proba.data |->
                            Above(proba.data[k], out_threshold)]]
    /\ ppc' = "returned"
    /\ UNCHANGED <<full_img, scale_factor, out_threshold, height, width, img,
                   proba>>

MonitorIdle ==
    /\ iterable = <<>>
    /\ one_pass = FALSE
    /\ start = 0
    /\ end = 100
    /\ update_period = NoPeriod
    /\ updates = <<>>
    /\ remaining = <<>>
    /\ mpc = "idle"
    /\ i = 0
    /\ total = 0
    /\ yielded = <<>>
    /\ periods = <<>>

InitPredict ==
    /\ full_img \in ImageShapes
    /\ scale_factor \in ScaleFactors
    /\ out_threshold \in Thresholds
    /\ ppc = "call"
    /\ height = 0
    /\ width = 0
    /\ img = <<>>
    /\ proba = [shape |-> <<>>, data |-> <<>>]
    /\ mask = [shape |-> <<>>, data |-> <<>>]
    /\ MonitorIdle
    /\ MainIdle

PredictUnpack == Unpack /\ UNCHANGED <<monitor_vars, main_vars>>
PredictCvResize == CvResize /\ UNCHANGED <<monitor_vars, main_vars>>
PredictTranspose == Transpose /\ UNCHANGED <<monitor_vars, main_vars>>
PredictNetForward == NetForward /\ UNCHANGED <<monitor_vars, main_vars>>
PredictTransform == Transform /\ UNCHANGED <<monitor_vars, main_vars>>
PredictThreshold == Threshold /\ UNCHANGED <<monitor_vars, main_vars>>

NextPredict ==
    \/ PredictUnpack
    \/ PredictCvResize
    \/ PredictTranspose
    \/ PredictNetForward
    \/ PredictTransform
    \/ PredictThreshold

SpecPredict == InitPredict /\ [][NextPredict]_vars

(***************************************************************************)
(* Claims about predict_img, checked under SpecPredict                     *)
(***************************************************************************)
\* C6: a pixel of the returned mask is True exactly when the resized
\* probability there is strictly greater than out_threshold: a pixel equal
\* to the threshold is False, one just above it is True.
C6_StrictThreshold ==
    ppc = "returned" =>
        /\ DOMAIN mask.data = DOMAIN proba.data
        /\ \A k \in DOMAIN mask.data :
             LET v == 2 * proba.data[k]
             IN /\ mask.data[k] \in BOOLEAN
                /\ (v <= out_threshold => mask.data[k] = FALSE)
                /\ (v >= out_threshold + 1 => mask.data[k] = TRUE)

C6_Witness ==
    /\ ppc = "returned"
    /\ scale_factor = <<1, 2>>
    /\ Len(mask.data) = 4
    /\ \E k \in DOMAIN mask.data :
         2 * proba.data[k] = out_threshold /\ mask.data[k] = FALSE

\* C7: the mask returned by predict_img has shape exactly (H, W), the native
\* height and width of the input, for every valid scale_factor.
C7_MaskHasNativeShape ==
    ppc = "returned" => mask.shape = <<full_img[1], full_img[2]>>

(***************************************************************************)
(* main                                                                    *)
(*                                                                         *)
(* The helpers main calls (prepare_data, load_model, imread, predict_img,  *)
(* imwrite, upload_data, upload_metrics) either return or raise; main has  *)
(* no try/except, so an exception leaves main at once.  Images are named   *)
(* by their 1-based position in in_images.                                 *)
(***************************************************************************)
\* Monitor(nj, in_images, start=20, end=75, period=0.05, ...)
MainStart == 20
MainEnd == 75
MainPeriod == FloatPeriod(<<1, 20>>)

\* nj.job.update(status=..., progress=..., statusComment=...) made by main.
JobUpdate(progress, status, comment) ==
    Append(updates, [progress |-> progress,
                     status |-> status,
                     comment |-> comment,
                     index |-> None,
                     num |-> 0,
                     den |-> 0,
                     at |-> Len(yielded)])

\* An exception that is caught and ignored: execution goes on.
Swallow(next) == next

\* An exception raised inside main is not caught: main is left, whatever
\* statement would have come next.
Propagate(next) == "aborted"

Raise(stage, image, next) ==
    /\ failure' = [stage |-> stage, image |-> image]
    /\ pc' = Propagate(next)

\* The element the for loop of line 105 currently holds.
in_image == yielded[Len(yielded)]

\* Line 98.
MainInitialise ==
    /\ pc = "start"
    /\ updates' = JobUpdate(0, "RUNNING", "Initialisation...")
    /\ pc' = "prepare"
    /\ UNCHANGED <<net_loads, reads, written, uploads, failure>>
    /\ UNCHANGED <<iterable, one_pass, remaining, start, end, update_period,
                   mpc, i, total, yielded, periods>>
    /\ UNCHANGED predict_vars

\* Line 99: prepare_data.
MainPrepareData ==
    /\ pc = "prepare"
    /\ \E ok \in BOOLEAN :
         IF ok THEN pc' = "load_update" /\ UNCHANGED failure
         ELSE Raise("prepare", 0, "load_update")
    /\ UNCHANGED <<net_loads, reads, written, uploads>>
    /\ UNCHANGED <<monitor_vars, predict_vars>>

\* Line 102.
MainUpdateLoad ==
    /\ pc = "load_update"
    /\ updates' = JobUpdate(10, "", "Load model...")
    /\ pc' = "load"
    /\ UNCHANGED <<net_loads, reads, written, uploads, failure>>
    /\ UNCHANGED <<iterable, one_pass, remaining, start, end, update_period,
                   mpc, i, total, yielded, periods>>
    /\ UNCHANGED predict_vars

\* Line 103: load_model.
MainLoadModel ==
    /\ pc = "load"
    /\ \E ok \in BOOLEAN :
         IF ok
         THEN /\ net_loads' = net_loads + 1
              /\ pc' = "iterate"
              /\ UNCHANGED failure
         ELSE /\ Raise("load", 0, "iterate")
              /\ UNCHANGED net_loads
    /\ UNCHANGED <<reads, written, uploads>>
    /\ UNCHANGED <<monitor_vars, predict_vars>>

\* Line 105: the for statement starts the Monitor's generator.
MainIterBegin ==
    /\ pc = "iterate"
    /\ IterBegin
    /\ UNCHANGED <<main_vars, predict_vars>>

\* Line 105: the generator runs to its next yield.
MainIterStep ==
    /\ pc = "iterate"
    /\ IterStep
    /\ IF mpc' = "raised"
       THEN Raise("monitor", i + 1, "next")
       ELSE pc' = "read" /\ UNCHANGED failure
    /\ UNCHANGED <<net_loads, reads, written, uploads>>
    /\ UNCHANGED predict_vars

\* Line 106: imread.
MainRead ==
    /\ pc = "read"
    /\ \E ok \in BOOLEAN :
         IF ok
         THEN /\ reads' = Append(reads, in_image)
              /\ pc' = "predict"
              /\ UNCHANGED failure
         ELSE /\ Raise("read", in_image, "next")
              /\ UNCHANGED reads
    /\ UNCHANGED <<net_loads, written, uploads>>
    /\ UNCHANGED <<monitor_vars, predict_vars>>

\* Lines 108-112: predict_img.
MainPredict ==
    /\ pc = "predict"
    /\ \E ok \in BOOLEAN :
         IF ok THEN pc' = "write" /\ UNCHANGED failure
         ELSE Raise("predict", in_image, "next")
    /\ UNCHANGED <<net_loads, reads, written, uploads>>
    /\ UNCHANGED <<monitor_vars, predict_vars>>

\* Lines 114-118: imwrite.
MainWrite ==
    /\ pc = "write"
    /\ \E ok \in BOOLEAN :
         IF ok
         THEN /\ written' = Append(written, in_image)
              /\ pc' = "next"
              /\ UNCHANGED failure
         ELSE /\ Raise("write", in_image, "next")
              /\ UNCHANGED written
    /\ UNCHANGED <<net_loads, reads, uploads>>
    /\ UNCHANGED <<monitor_vars, predict_vars>>

\* Line 105: the loop body is over, the for statement asks for the next
\* element.
MainResume ==
    /\ pc = "next"
    /\ Resume
    /\ pc' = "iterate"
    /\ UNCHANGED <<net_loads, reads, written, uploads, failure>>
    /\ UNCHANGED predict_vars

\* Line 105: the generator is exhausted, the loop ends.
MainIterEnd ==
    /\ pc = "iterate"
    /\ IterEnd
    /\ pc' = "upload_update"
    /\ UNCHANGED <<net_loads, reads, written, uploads, failure>>
    /\ UNCHANGED predict_vars

\* Line 121.
MainUpdateUpload ==
    /\ pc = "upload_update"
    /\ updates' = JobUpdate(70, "", "Uploading extracted annotation...")
    /\ pc' = "upload"
    /\ UNCHANGED <<net_loads, reads, written, uploads, failure>>
    /\ UNCHANGED <<iterable, one_pass, remaining, start, end, update_period,
                   mpc, i, total, yielded, periods>>
    /\ UNCHANGED predict_vars

\* Lines 122-124: upload_data.
MainUploadData ==
    /\ pc = "upload"
    /\ \E ok \in BOOLEAN :
         IF ok
         THEN /\ uploads' = Append(uploads, "data")
              /\ pc' = "metrics_update"
              /\ UNCHANGED failure
         ELSE /\ Raise("upload_data", 0, "metrics_update")
              /\ UNCHANGED uploads
    /\ UNCHANGED <<net_loads, reads, written>>
    /\ UNCHANGED <<monitor_vars, predict_vars>>

\* Line 127.
MainUpdateMetrics ==
    /\ pc = "metrics_update"
    /\ updates' = JobUpdate(90, "",
                            "Computing and uploading metrics (if necessary)...")
    /\ pc' = "metrics"
    /\ UNCHANGED <<net_loads, reads, written, uploads, failure>>
    /\ UNCHANGED <<iterable, one_pass, remaining, start, end, update_period,
                   mpc, i, total, yielded, periods>>
    /\ UNCHANGED predict_vars

\* Line 128: upload_metrics.
MainUploadMetrics ==
    /\ pc = "metrics"
    /\ \E ok \in BOOLEAN :
         IF ok
         THEN /\ uploads' = Append(uploads, "metrics")
              /\ pc' = "end_update"
              /\ UNCHANGED failure
         ELSE /\ Raise("upload_metrics", 0, "end_update")
              /\ UNCHANGED uploads
    /\ UNCHANGED <<net_loads, reads, written>>
    /\ UNCHANGED <<monitor_vars, predict_vars>>

\* Line 131.
MainUpdateEnd ==
    /\ pc = "end_update"
    /\ updates' = JobUpdate(100, "TERMINATED", "Finished.")
    /\ pc' = "finished"
    /\ UNCHANGED <<net_loads, reads, written, uploads, failure>>
    /\ UNCHANGED <<iterable, one_pass, remaining, start, end, update_period,
                   mpc, i, total, yielded, periods>>
    /\ UNCHANGED predict_vars

\* in_images as returned by prepare_data: a list of n distinct images.
InImages(n) == [k \in 1..n |-> k]

InitMain ==
    /\ \E n \in 0..MaxImages : iterable = InImages(n)
    /\ one_pass = FALSE
    /\ start = MainStart
    /\ end = MainEnd
    /\ update_period = MainPeriod
    /\ updates = <<>>
    /\ MonitorFresh
    /\ PredictIdle
    /\ pc = "start"
    /\ net_loads = 0
    /\ reads = <<>>
    /\ written = <<>>
    /\ uploads = <<>>
    /\ failure = [stage |-> "none", image |-> 0]

NextMain ==
    \/ MainInitialise
    \/ MainPrepareData
    \/ MainUpdateLoad
    \/ MainLoadModel
    \/ MainIterBegin
    \/ MainIterStep
    \/ MainRead
    \/ MainPredict
    \/ MainWrite
    \/ MainResume
    \/ MainIterEnd
    \/ MainUpdateUpload
    \/ MainUploadData
    \/ MainUpdateMetrics
    \/ MainUploadMetrics
    \/ MainUpdateEnd

SpecMain == InitMain /\ [][NextMain]_vars

(***************************************************************************)
(* Claims about main, checked under SpecMain                               *)
(***************************************************************************)
ImageStages == {"read", "predict", "write"}

\* The updates main itself makes after the inference loop.
LateComments ==
    {"Uploading extracted annotation...",
     "Computing and uploading metrics (if necessary)...",
     "Finished."}

C10_ProgressNonDecreasing ==
    /\ \A j \in 1..(Len(updates) - 1) :
         updates[j].progress <= updates[j + 1].progress
    /\ pc = "finished" =>
         /\ updates[Len(updates)].status = "TERMINATED"
         /\ updates[Len(updates)].progress = 100
         /\ written = iterable

====
